---- MODULE Spec2Model ----
(***************************************************************************)
(* A model of lib/constantsynth.cpp of VectorSynth: the quantifier and     *)
(* classifier-instantiation preprocessor (preprocess), the counterexample  *)
(* value renderer (print_single_varval), the diagnostic builder (error)    *)
(* and the orchestration of the two proof obligations                      *)
(* (ConstantSynth::synthesize).                                            *)
(*                                                                         *)
(* Four specifications share the module:                                   *)
(*   SpecPre / SpecPreWide  preprocess, on bounded families of terms       *)
(*   SpecPrint              print_single_varval, on bounded inputs         *)
(*   Spec                   synthesize and its two result handlers         *)
(***************************************************************************)
EXTENDS Integers, Sequences, FiniteSets, TLC

VARIABLES
  \* ---- preprocess (lines 20-95) ----
  ppc,          \* position in preprocess
  e0,           \* the term passed in (parameter e)
  qvars0,       \* the quantifier set passed in (parameter qvars0)
  undefEmpty,   \* undef_qvars.empty()
  inputs,       \* t.src.getInputs(): a sequence of "Input" / "ConstantInput"
  disUndef,     \* config::disable_undef_input
  disPoison,    \* config::disable_poison_input
                \* (these three are first read at lines 54, 62 and 64; they
                \*  hold <<>> and FALSE until BeginInstances reads them)
  memHit,       \* whether hit_half_memory_limit() has answered true
  e,            \* the local term e (after the boolean case splits done so far)
  qvars,        \* the local quantifier set qvars
  todo,         \* boolean members of qvars0 the loop of line 37 has not reached
  instances,    \* map<expr, expr> instances: partial term -> guard
  idx,          \* index in inputs of the input the loop of line 54 is at
  done,         \* the inputs whose classifier variable has been instantiated
  ret,          \* the returned term (NoTerm until preprocess returns)
  \* ---- print_single_varval (lines 104-152) ----
  prpc,         \* "call" before the call, "done" after it, "aborted"
  prin,         \* the arguments, as the function sees them through the model
  os,           \* the text written to the stream
  \* ---- ConstantSynth::synthesize (lines 264-391) ----
  pc,           \* "start", "check" (inside Solver::check), "returned", "aborted"
  srcValues,    \* src_state.getValues(): a sequence of [name, kind]
  tgtValues,    \* tgt_state.getValues()
  refines,      \* the term handed to mk_fml, for "dom" and for "main"
  pre,          \* what preprocess returns for that obligation
  asserts,      \* whether assert and ENSURE are compiled in
  result0,      \* the caller's map when synthesize is entered
  queries,      \* the list given to Solver::check
  qi,           \* the query Solver::check is at
  errs,         \* Errors errs
  result,       \* the synthesized-constants map (the out-parameter)
  written,      \* history: the keys synthesize has assigned in result
  log,          \* history: the results delivered, <<handler, kind, reason>>
  dbg           \* what went to config::dbg()

prevars == <<ppc, e0, qvars0, undefEmpty, inputs, disUndef, disPoison, memHit,
             e, qvars, todo, instances, idx, done, ret>>

prvars == <<prpc, prin, os>>

synvars == <<pc, srcValues, tgtValues, refines, pre, asserts, result0,
             queries, qi, errs, result, written, log, dbg>>

vars == <<prevars, prvars, synvars>>

(***************************************************************************)
(* Symbolic expressions (smt::expr), as far as preprocess needs them.      *)
(*   <<"const", b>>          the boolean literals                          *)
(*   <<"bool", i>>           a boolean variable                            *)
(*   <<"eq", a, b>>          equality of two 2-bit operands                *)
(*   <<"not", t>>, <<"and", t, u>>, <<"or", t, u>>                         *)
(*   <<"forall", Q, t>>      quantification over the variables in Q        *)
(* Operands: <<"ty", i>> the classifier variable of input i (2 bits),      *)
(*   <<"x", j>> another 2-bit variable, <<"num", c>> a 2-bit literal.      *)
(***************************************************************************)
NoTerm == <<"none">>

TT == <<"const", TRUE>>

FF == <<"const", FALSE>>

BV2 == 0 .. 3

IsFalse(t) == t = FF

IsTrue(t) == t = TT

IsConst(t) == t[1] = "const"

\* expr::operator&& : the light folding the constructor does
MkAnd(a, b) ==
  IF a = b THEN a
  ELSE IF IsFalse(a) \/ IsTrue(b) THEN a
  ELSE IF IsTrue(a) \/ IsFalse(b) THEN b
  ELSE <<"and", a, b>>

\* expr::operator|| (used by |=)
MkOr(a, b) ==
  IF a = b THEN a
  ELSE IF IsTrue(a) \/ IsFalse(b) THEN a
  ELSE IF IsFalse(a) \/ IsTrue(b) THEN b
  ELSE <<"or", a, b>>

\* expr::operator!
MkNot(a) ==
  IF IsConst(a) THEN <<"const", ~a[2]>>
  ELSE IF a[1] = "not" THEN a[2]
  ELSE <<"not", a>>

\* expr::operator== on bit-vectors
MkEq(a, b) ==
  IF a = b THEN TT
  ELSE IF a[1] = "num" /\ b[1] = "num" THEN FF
  ELSE <<"eq", a, b>>

\* expr::mkForAll : nothing to bind, or a literal body, gives the body back
MkForAll(Q, t) == IF Q = {} \/ IsConst(t) THEN t ELSE <<"forall", Q, t>>

\* expr::mkUInt(c, 2)
MkUInt(c) == <<"num", c % 4>>

SubstOp(a, var, val) == IF a = var THEN val ELSE a

\* expr::subst(var, val): structural replacement, no simplification
RECURSIVE Subst(_, _, _)
Subst(t, var, val) ==
  CASE t[1] = "const" -> t
    [] t[1] = "bool" -> IF t = var THEN val ELSE t
    [] t[1] = "eq" -> <<"eq", SubstOp(t[2], var, val), SubstOp(t[3], var, val)>>
    [] t[1] = "not" -> <<"not", Subst(t[2], var, val)>>
    [] t[1] = "and" -> <<"and", Subst(t[2], var, val), Subst(t[3], var, val)>>
    [] t[1] = "or" -> <<"or", Subst(t[2], var, val), Subst(t[3], var, val)>>
    [] t[1] = "forall" -> <<"forall", t[2], Subst(t[3], var, val)>>

\* expr::simplify(): bottom-up folding of literals
RECURSIVE Simplify(_)
Simplify(t) ==
  CASE t[1] = "const" -> t
    [] t[1] = "bool" -> t
    [] t[1] = "eq" -> MkEq(t[2], t[3])
    [] t[1] = "not" -> MkNot(Simplify(t[2]))
    [] t[1] = "and" -> MkAnd(Simplify(t[2]), Simplify(t[3]))
    [] t[1] = "or" -> MkOr(Simplify(t[2]), Simplify(t[3]))
    [] t[1] = "forall" -> MkForAll(t[2], Simplify(t[3]))

\* var.isBool()
IsBool(var) == var[1] = "bool"

\* Input::getTyVar() of the i-th input
TyVar(i) == <<"ty", i>>

(***************************************************************************)
(* Meaning of a term under a valuation v = [b |-> .., x |-> .., ty |-> ..] *)
(* of the boolean variables, the 2-bit variables and the classifiers.      *)
(***************************************************************************)
OpVal(a, v) ==
  CASE a[1] = "num" -> a[2]
    [] a[1] = "x" -> v.x[a[2]]
    [] a[1] = "ty" -> v.ty[a[2]]

QBools(Q) == {q[2] : q \in {q \in Q : q[1] = "bool"}}

QXs(Q) == {q[2] : q \in {q \in Q : q[1] = "x"}}

Rebind(v, fb, fx) ==
  [b |-> [i \in DOMAIN v.b |-> IF i \in DOMAIN fb THEN fb[i] ELSE v.b[i]],
   x |-> [j \in DOMAIN v.x |-> IF j \in DOMAIN fx THEN fx[j] ELSE v.x[j]],
   ty |-> v.ty]

RECURSIVE Eval(_, _)
Eval(t, v) ==
  CASE t[1] = "const" -> t[2]
    [] t[1] = "bool" -> v.b[t[2]]
    [] t[1] = "eq" -> OpVal(t[2], v) = OpVal(t[3], v)
    [] t[1] = "not" -> ~Eval(t[2], v)
    [] t[1] = "and" -> Eval(t[2], v) /\ Eval(t[3], v)
    [] t[1] = "or" -> Eval(t[2], v) \/ Eval(t[3], v)
    [] t[1] = "forall" ->
         \A fb \in [QBools(t[2]) -> BOOLEAN] :
           \A fx \in [QXs(t[2]) -> BV2] : Eval(t[3], Rebind(v, fb, fx))

(***************************************************************************)
(* The inputs preprocess is run on.                                        *)
(***************************************************************************)
\* bounds of the term family
NumBoolVars == 2

MaxInputs == 2

BoolIds == 1 .. NumBoolVars

XIds == {1}

TyIds == 1 .. MaxInputs

\* the atoms, in a fixed order: <<rank, atom>>
Atoms ==
  {<<i, <<"bool", i>>>> : i \in BoolIds}
  \cup {<<10 + 2 * i + c, <<"eq", <<"ty", i>>, <<"num", c>>>>>> :
           i \in TyIds, c \in 0 .. 1}
  \cup {<<30 + i, <<"eq", <<"x", 1>>, <<"ty", i>>>>>> : i \in TyIds}
  \cup {<<50, <<"eq", <<"x", 1>>, <<"num", 3>>>>>>}

\* a literal, a conjunction or a disjunction of an atom and a literal of a
\* later atom
AtomPairs == {p \in Atoms \X Atoms : p[1][1] < p[2][1]}

TermsSmall ==
  {a[2] : a \in Atoms}
  \cup {<<"not", a[2]>> : a \in Atoms}
  \cup {<<op, p[1][2], p[2][2]>> : op \in {"and", "or"}, p \in AtomPairs}
  \cup {<<op, p[1][2], <<"not", p[2][2]>>>> : op \in {"and", "or"}, p \in AtomPairs}

QVarSets == SUBSET ({<<"bool", i>> : i \in BoolIds} \cup {<<"x", j>> : j \in XIds})

RECURSIVE SeqsUpTo(_, _)
SeqsUpTo(S, n) ==
  IF n = 0 THEN {<<>>}
  ELSE LET R == SeqsUpTo(S, n - 1)
       IN R \cup {Append(s, a) : s \in {r \in R : Len(r) = n - 1}, a \in S}

InputLists == SeqsUpTo({"Input", "ConstantInput"}, MaxInputs)

\* The wide family: up to MaxWide inputs, and terms that keep the value of
\* every classifier they mention, so that no two instantiations coincide:
\* the conjunction over i in S of  x_i = ty_i
MaxWide == 6

RECURSIVE WideTerm(_)
WideTerm(S) ==
  IF S = {} THEN TT
  ELSE LET i == CHOOSE i \in S : \A j \in S : i <= j
       IN MkAnd(<<"eq", <<"x", i>>, <<"ty", i>>>>, WideTerm(S \ {i}))

TermsWide == {WideTerm(a .. b) : a \in 1 .. MaxWide, b \in 0 .. MaxWide}

WideInputLists == {[i \in 1 .. n |-> "Input"] : n \in 0 .. MaxWide}

(***************************************************************************)
(* preprocess, lines 20-95                                                 *)
(***************************************************************************)
\* the threshold of line 84
MaxInstances == 128

\* hit_half_memory_limit(): the process-wide governor; once the limit is hit
\* it stays hit
MemAnswers == IF memHit THEN {TRUE} ELSE BOOLEAN

\* CaseSplit with the two sides joined by || instead of &&
CaseSplitOr(t, var) ==
  MkOr(Simplify(Subst(t, var, TT)), Simplify(Subst(t, var, FF)))

\* lines 40-41: e.subst(var, true).simplify() && e.subst(var, false).simplify()
CaseSplit(t, var) ==
  MkAnd(Simplify(Subst(t, var, TT)), Simplify(Subst(t, var, FF)))

\* lines 61-65: the classifier values the inner loop does not skip
EnabledNums(du, dp) ==
  {i \in 0 .. 2 : ~(du /\ i = 1) /\ ~(dp /\ i = 2)}

\* lines 67-68: e.subst(var, nums[i]) is e itself.  Value 0 is never
\* skipped, so the test decides at i = 0 and the break ends the inner loop.
NoOp(t, var) == Subst(t, var, MkUInt(0)) = t

\* Branches with line 75 a break instead of a continue: a value whose branch
\* simplifies to false ends the inner loop
BranchesBreak(t, var, du, dp) ==
  {r \in {<<i, Simplify(Subst(t, var, MkUInt(i)))>> : i \in EnabledNums(du, dp)} :
     \A j \in EnabledNums(du, dp) :
       j <= r[1] => ~IsFalse(Simplify(Subst(t, var, MkUInt(j))))}

\* lines 67-75 for one entry: the pairs <<i, newexpr>> that reach line 78
Branches(t, var, du, dp) ==
  {r \in {<<i, Simplify(Subst(t, var, MkUInt(i)))>> : i \in EnabledNums(du, dp)} :
     ~IsFalse(r[2])}

\* lines 60-79 over the whole map: the triples <<entry, i, newexpr>> that
\* reach line 78
Emplaced(inst, var, du, dp) ==
  UNION {{<<s, r[1], r[2]>> : r \in Branches(s, var, du, dp)} :
           s \in {k \in DOMAIN inst : ~NoOp(k, var)}}

\* line 78: try_emplace(newexpr, v && var == nums[i]).  Within one entry
\* the first i that yields a key is the one emplaced: the pairs
\* <<key, guard>> an entry can contribute
Offers(inst, var, du, dp) ==
  LET T == Emplaced(inst, var, du, dp)
  IN {<<p[3], MkAnd(inst[p[1]], MkEq(var, MkUInt(p[2])))>> :
        p \in {q \in T : \A j \in 0 .. 2 : j < q[2] => <<q[1], j, q[3]>> \notin T}}

\* lines 60-81: the maps instances can be after one input.  Line 69 assigns
\* (an entry the substitution leaves alone keeps its own guard, whatever was
\* emplaced under that key); line 78 emplaces, so of several entries that
\* yield one key the first in the map's iteration order gives the guard, and
\* that order (expr::operator<) is not fixed by this file: any of them may.
Expanded(inst, var, du, dp) ==
  LET Same == {k \in DOMAIN inst : NoOp(k, var)}
      G == Offers(inst, var, du, dp)
      K == Same \cup {g[1] : g \in G}
      C == [k \in K |-> IF k \in Same THEN {inst[k]}
                        ELSE {g[2] : g \in {h \in G : h[1] = k}}]
      Open == {k \in K : Cardinality(C[k]) > 1}
      Picks == {f \in [Open -> UNION {C[k] : k \in Open}] :
                  \A k \in Open : f[k] \in C[k]}
  IN {[k \in K |-> IF k \in Open THEN f[k] ELSE CHOOSE g \in C[k] : TRUE] :
        f \in Picks}

\* TooBig testing the moved-from map instances2, which is empty
TooBigMoved(inst) == Cardinality(DOMAIN [t \in {} |-> inst]) >= MaxInstances

\* line 84: instances.size() >= 128
TooBig(inst) == Cardinality(DOMAIN inst) >= MaxInstances

\* lines 87-90: insts |= mkForAll(qvars, e) && v, over the entries
RECURSIVE Disjunction(_, _, _, _)
Disjunction(inst, K, Q, acc) ==
  IF K = {} THEN acc
  ELSE LET k == CHOOSE k \in K : TRUE
       IN Disjunction(inst, K \ {k}, Q,
                      MkOr(acc, MkAnd(MkForAll(Q, k), inst[k])))

NoInstances == [t \in {} |-> TT]

\* line 23
Entry ==
  /\ ppc = "entry"
  /\ \E h \in MemAnswers :
       /\ memHit' = h
       /\ IF h
          THEN /\ ret' = MkForAll(qvars0, e0)
               /\ ppc' = "returned"
               /\ UNCHANGED <<qvars, todo>>
          ELSE /\ ppc' = "elim"
               /\ qvars' = qvars0
               /\ todo' = {q \in qvars0 : IsBool(q)}
               /\ ret' = ret
  /\ UNCHANGED <<prvars, synvars, e0, qvars0, undefEmpty, inputs, disUndef, disPoison, e,
                 instances, idx, done>>

\* lines 37-43, one boolean member of qvars0 (the non-boolean ones are
\* skipped); std::set iterates in the order of expr::operator<, taken here
\* as any order
ElimBool ==
  /\ ppc = "elim"
  /\ \E var \in todo :
       /\ e' = CaseSplit(e, var)
       /\ qvars' = qvars \ {var}
       /\ todo' = todo \ {var}
  /\ UNCHANGED <<prvars, synvars, ppc, e0, qvars0, undefEmpty, inputs, disUndef, disPoison,
                 memHit, instances, idx, done, ret>>

\* lines 45-46
ReturnForAll ==
  /\ ppc = "elim"
  /\ todo = {}
  /\ \E h \in (IF undefEmpty THEN {memHit} ELSE MemAnswers) :
       /\ undefEmpty \/ h
       /\ memHit' = h
  /\ ret' = MkForAll(qvars, e)
  /\ ppc' = "returned"
  /\ UNCHANGED <<prvars, synvars, e0, qvars0, undefEmpty, inputs, disUndef, disPoison, e,
                 qvars, todo, instances, idx, done>>

\* lines 45 (not taken), 49-54: the map is seeded, and the transform's
\* inputs (one of the lists L) and the two configuration flags are read
BeginWith(L) ==
  /\ ppc = "elim"
  /\ todo = {}
  /\ ~undefEmpty
  /\ FALSE \in MemAnswers
  /\ instances' = (e :> TT)
  /\ inputs' \in L
  /\ disUndef' \in BOOLEAN
  /\ disPoison' \in BOOLEAN
  /\ idx' = 1
  /\ ppc' = "inst"
  /\ UNCHANGED <<prvars, synvars, e0, qvars0, undefEmpty, memHit, e, qvars, todo, done, ret>>

BeginInstances == BeginWith(InputLists)

BeginInstancesWide == BeginWith(WideInputLists)

\* lines 55-57: the input is not an Input
SkipNonInput ==
  /\ ppc = "inst"
  /\ idx <= Len(inputs)
  /\ inputs[idx] # "Input"
  /\ idx' = idx + 1
  /\ UNCHANGED <<prvars, synvars, ppc, e0, qvars0, undefEmpty, inputs, disUndef, disPoison,
                 memHit, e, qvars, todo, instances, done, ret>>

\* lines 58-85 for one Input
ExpandInput ==
  /\ ppc = "inst"
  /\ idx <= Len(inputs)
  /\ inputs[idx] = "Input"
  /\ \E m \in Expanded(instances, TyVar(idx), disUndef, disPoison) :
       /\ instances' = m
       /\ \E h \in (IF TooBig(m) THEN {memHit} ELSE MemAnswers) :
            /\ memHit' = h
            /\ IF TooBig(m) \/ h
               THEN ppc' = "bail" /\ idx' = idx
               ELSE ppc' = "inst" /\ idx' = idx + 1
  /\ done' = done \cup {idx}
  /\ UNCHANGED <<prvars, synvars, e0, qvars0, undefEmpty, inputs, disUndef, disPoison, e,
                 qvars, todo, ret>>

\* lines 87-94
Combine ==
  /\ \/ ppc = "inst" /\ idx > Len(inputs)
     \/ ppc = "bail"
  /\ ret' = Disjunction(instances, DOMAIN instances, qvars, FF)
  /\ ppc' = "returned"
  /\ UNCHANGED <<prvars, synvars, e0, qvars0, undefEmpty, inputs, disUndef, disPoison, memHit,
                 e, qvars, todo, instances, idx, done>>

NextPre ==
  \/ Entry
  \/ ElimBool
  \/ ReturnForAll
  \/ BeginInstances
  \/ SkipNonInput
  \/ ExpandInput
  \/ Combine

\* synthesize is not running
SynthIdle ==
  /\ pc = "idle"
  /\ srcValues = <<>>
  /\ tgtValues = <<>>
  /\ refines = <<>>
  /\ pre = <<>>
  /\ asserts = FALSE
  /\ result0 = <<>>
  /\ queries = <<>>
  /\ qi = 0
  /\ errs = <<>>
  /\ result = <<>>
  /\ written = {}
  /\ log = <<>>
  /\ dbg = <<>>

\* print_single_varval is not running
PrintIdle ==
  /\ prpc = "idle"
  /\ prin = <<>>
  /\ os = ""

InitPreCommon ==
  /\ PrintIdle
  /\ SynthIdle
  /\ ppc = "entry"
  /\ inputs = <<>>
  /\ disUndef = FALSE
  /\ disPoison = FALSE
  /\ memHit = FALSE
  /\ e = e0
  /\ qvars = qvars0
  /\ todo = {}
  /\ instances = NoInstances
  /\ idx = 0
  /\ done = {}
  /\ ret = NoTerm

InitPre ==
  /\ e0 \in TermsSmall
  /\ qvars0 \in QVarSets
  /\ undefEmpty \in BOOLEAN
  /\ InitPreCommon

SpecPre == InitPre /\ [][NextPre]_vars

NextPreWide ==
  \/ Entry
  \/ ElimBool
  \/ ReturnForAll
  \/ BeginInstancesWide
  \/ ExpandInput
  \/ Combine

InitPreWide ==
  /\ e0 \in TermsWide
  /\ qvars0 \in QVarSets
  /\ undefEmpty \in BOOLEAN
  /\ InitPreCommon

SpecPreWide == InitPreWide /\ [][NextPreWide]_vars

(***************************************************************************)
(* Claims about preprocess                                                 *)
(***************************************************************************)
Vals == [b : [BoolIds -> BOOLEAN], x : [XIds -> BV2], ty : [TyIds -> BV2]]

\* one valuation for each valuation of the variables outside Q
ValsModulo(Q) ==
  {v \in Vals : /\ \A i \in QBools(Q) : ~v.b[i]
                /\ \A j \in QXs(Q) : v.x[j] = 0}

Size(inst) == Cardinality(DOMAIN inst)

\* C5 as stated: the instances map never holds more than 128 entries.
C5_NeverMoreThan128 == Size(instances) <= MaxInstances

\* C5, amended: the size is tested against 128 only after an input has been
\* expanded, so the map never holds more than 3 * 127 entries; an input is
\* expanded only while the map holds fewer than 128; once it holds 128 or
\* more, expansion has stopped, and preprocess still returns a term.
C5_BoundedAfterExpansion ==
  /\ Size(instances) <= 3 * (MaxInstances - 1)
  /\ Size(instances) >= MaxInstances => ~(ppc = "inst" /\ idx <= Len(inputs))
  /\ ppc = "returned" => ret # NoTerm

C5_Witness ==
  /\ ppc = "returned"
  /\ Size(instances) > MaxInstances
  /\ idx < Len(inputs)
  /\ ret # NoTerm

\* C6: after any number of boolean members of qvars0 have been case-split
\* away, in any order, forall qvars. e has the truth value of
\* forall qvars0. e0 under every valuation; so has the term returned at
\* line 46.
C6_CaseSplitEquivalent ==
  (ppc = "elim" \/ (ppc = "returned" /\ idx = 0)) =>
    \A v \in ValsModulo(qvars) :
      /\ Eval(<<"forall", qvars, e>>, v) = Eval(<<"forall", qvars0, e0>>, v)
      /\ ppc = "returned" => Eval(ret, v) = Eval(<<"forall", qvars0, e0>>, v)

C6_Witness ==
  /\ ppc = "returned"
  /\ idx = 0
  /\ Cardinality(qvars0 \ qvars) = NumBoolVars
  /\ e # e0
  /\ ~IsConst(e)

Sat(t) == \E v \in Vals : Eval(t, v)

\* forall qvars. e is satisfiable with the classifiers in D kept to {0,1,2}
SatWithin(D) ==
  \E v \in Vals :
    /\ \A i \in D : v.ty[i] \in 0 .. 2
    /\ Eval(<<"forall", qvars, e>>, v)

InstantiationReturn ==
  ppc = "returned" /\ idx >= 1 /\ ~disUndef /\ ~disPoison

\* C10 as stated: the disjunction returned by the instantiation path is
\* satisfiable exactly when forall qvars. e is, with every classifier
\* variable in {0,1,2}.
C10_EquisatAllClassifiers ==
  InstantiationReturn => (Sat(ret) <=> SatWithin(TyIds))

\* C10, amended: ... with the classifier variables the loop instantiated in
\* {0,1,2}, and the ones it did not reach (it bailed out, or the variable is
\* not that of an Input of the source) anywhere in their two bits.
C10_EquisatInstantiated ==
  InstantiationReturn => (Sat(ret) <=> SatWithin(done))

C10_Witness ==
  /\ InstantiationReturn
  /\ Size(instances) >= 2
  /\ done # {}
  /\ Sat(ret)
  /\ \E k \in DOMAIN instances : instances[k] # TT

(***************************************************************************)
(* print_single_varval, lines 104-152                                     *)
(*                                                                         *)
(* The arguments as the function observes them:                            *)
(*   valid    val.isValid()                                                *)
(*   np       m.eval(val.non_poison): "true", "false", or "open" (not a    *)
(*            literal: the model is partial)                               *)
(*   kind     the dynamic type of *var                                     *)
(*   ty       the numeral m[in->getTyVar()], or NoNumeral                  *)
(*   partial  m.eval(val.value): "const", or a non-literal that is_undef   *)
(*            classifies as undef ("undef") or not ("open")                *)
(*   shown    what type.printVal writes for m.eval(val.value, true)        *)
(*   tainted  some variable of the partial value isUndef                   *)
(*   debug    whether assert and ENSURE are compiled in                    *)
(*   before   the stream's text before the call                            *)
(***************************************************************************)
NoNumeral == 0 - 1

Abort == "<abort>"

\* lines 131-151
PrintValue(a) ==
  IF a.partial = "undef" THEN "undef"
  ELSE IF a.partial = "open" /\ a.tainted
       THEN a.shown \o "\t[based on undef value]"
       ELSE a.shown

\* line 123: ENSURE(m[in->getTyVar()].isUInt(n)).  Without a numeral the
\* debug build stops; the release build goes on with n never written.
ClassifierValues(a) ==
  IF a.ty # NoNumeral THEN {a.ty}
  ELSE IF a.debug THEN {NoNumeral} ELSE BV2

\* ClassifierIsUndef testing for the poison value instead
ClassifierIsPoison(n) == n = 2

\* line 124: n == 1
ClassifierIsUndef(n) == n = 1

\* lines 121-129 for the classifier value n, then lines 131-151
PrintInput(a, n) ==
  IF n = NoNumeral THEN Abort
  ELSE IF ClassifierIsUndef(n) THEN "undef"
  ELSE IF n # 0 /\ a.debug THEN Abort
  ELSE PrintValue(a)

\* what print_single_varval can write
PrintOutcomes(a) ==
  IF ~a.valid THEN {"(invalid expr)"}
  ELSE IF a.np # "true" THEN {"poison"}
  ELSE IF a.kind = "Input" THEN {PrintInput(a, n) : n \in ClassifierValues(a)}
  ELSE {PrintValue(a)}

PrintArgs ==
  [valid : BOOLEAN, np : {"true", "false", "open"},
   kind : {"Input", "ConstantInput", "Instr"},
   ty : BV2 \cup {NoNumeral},
   partial : {"const", "undef", "open"}, shown : {"0", "1"},
   tainted : BOOLEAN, debug : BOOLEAN, before : {"", "%x = "}]

PrintSingleVarval ==
  /\ prpc = "call"
  /\ \E out \in PrintOutcomes(prin) :
       IF out = Abort
       THEN prpc' = "aborted" /\ os' = os
       ELSE prpc' = "done" /\ os' = os \o out
  /\ UNCHANGED <<prevars, synvars, prin>>

NextPrint == PrintSingleVarval

\* preprocess is not running
PreIdle ==
  /\ ppc = "idle"
  /\ e0 = NoTerm
  /\ qvars0 = {}
  /\ undefEmpty = TRUE
  /\ inputs = <<>>
  /\ disUndef = FALSE
  /\ disPoison = FALSE
  /\ memHit = FALSE
  /\ e = NoTerm
  /\ qvars = {}
  /\ todo = {}
  /\ instances = NoInstances
  /\ idx = 0
  /\ done = {}
  /\ ret = NoTerm

InitPrint ==
  /\ PreIdle
  /\ SynthIdle
  /\ prpc = "call"
  /\ prin \in PrintArgs
  /\ os = prin.before

SpecPrint == InitPrint /\ [][NextPrint]_vars

(***************************************************************************)
(* Claims about print_single_varval                                        *)
(***************************************************************************)
UndefClassified == prin.kind = "Input" /\ prin.ty = 1

\* C7 as stated: an input whose classifier is 1 under the model is printed
\* as undef, whatever the model gives the rest of the value.
C7_UndefWhateverTheValue ==
  (prpc = "done" /\ UndefClassified) => os = prin.before \o "undef"

\* C7, amended: ... is printed as undef whatever the model gives its value
\* term, provided the value is valid and its non-poison flag evaluates to
\* the literal true; an invalid value is printed "(invalid expr)" and a
\* false or undetermined flag "poison", before the classifier is looked at.
C7_UndefWhenValidAndNotPoison ==
  (prpc # "call" /\ UndefClassified) =>
    /\ prpc = "done"
    /\ (prin.valid /\ prin.np = "true") => os = prin.before \o "undef"
    /\ ~prin.valid => os = prin.before \o "(invalid expr)"
    /\ (prin.valid /\ prin.np # "true") => os = prin.before \o "poison"

C7_Witness ==
  /\ prpc = "done"
  /\ UndefClassified
  /\ prin.valid
  /\ prin.np = "true"
  /\ prin.partial = "const"
  /\ prin.shown = "1"
  /\ os = "%x = undef"

(***************************************************************************)
(* ConstantSynth::synthesize, lines 264-391, with error (lines 174-251)    *)
(* and print_varval (lines 154-170).                                       *)
(*                                                                         *)
(* A value of a State is [name, kind]; a name is the sequence of its       *)
(* pieces, so that "starts with %_reservedc" and "name[0] is %" are tests  *)
(* on the name.  A stream's text is the sequence of the pieces written.    *)
(***************************************************************************)
Kinds == {"Input", "ConstantInput", "Instr"}

\* line 379: the prefix of a constant hole's name
ReservedPrefix == <<"%", "_reservedc">>

StartsWith(name, prefix) ==
  Len(name) >= Len(prefix) /\ SubSeq(name, 1, Len(prefix)) = prefix

RECURSIVE Join(_)
Join(name) == IF name = <<>> THEN "" ELSE Head(name) \o Join(Tail(name))

\* How a model shows a value: the fields print_single_varval looks at
VConcrete ==
  [np |-> "true", ty |-> 0, partial |-> "const", shown |-> "1", tainted |-> FALSE]

VUndef ==
  [np |-> "true", ty |-> 1, partial |-> "open", shown |-> "0", tainted |-> TRUE]

Views == {VConcrete, VUndef}

\* A model, as far as this file reads it: one view for the values of a kind
Models == [Kinds -> Views]

NoModel == <<>>

Reasons == {"unknown", "out of memory"}

\* smt::Result: exactly one of the six kinds
Results ==
  {[kind |-> k, reason |-> "", model |-> NoModel] :
     k \in {"Invalid", "Timeout", "Skip", "Unsat"}}
  \cup {[kind |-> "Error", reason |-> x, model |-> NoModel] : x \in Reasons}
  \cup {[kind |-> "Sat", reason |-> "", model |-> m] : m \in Models}

PrintArgsOf(v, m) ==
  [valid |-> TRUE, np |-> m[v.kind].np, kind |-> v.kind, ty |-> m[v.kind].ty,
   partial |-> m[v.kind].partial, shown |-> m[v.kind].shown,
   tainted |-> m[v.kind].tainted, debug |-> asserts, before |-> ""]

\* lines 154-170, for a value whose type is not an aggregate
PrintVarval(a) == PrintOutcomes(a)

AbortText == <<Abort>>

\* line 202, line 371: r.getModel().  On a result that is not Sat the debug
\* build stops at the assertion; the release build reads a model that was
\* never set.
GetModel(r) ==
  IF r.kind = "Sat" THEN {r.model}
  ELSE IF asserts THEN {}
  ELSE Models

\* lines 211-213 ("inputs") and lines 235-238 with check_each_var false
\* ("values"): the values a loop of error prints
Printed(v, which) ==
  IF which = "inputs" THEN v.kind \in {"Input", "ConstantInput"}
  ELSE v.name[1] = "%" /\ v.kind # "Input"

\* lines 209-217 and 229-244: one "<var> = <value>\n" per printed value
RECURSIVE Lines(_, _, _)
Lines(vals, m, which) ==
  IF vals = <<>> THEN {<<>>}
  ELSE LET v == Head(vals)
           rest == Lines(Tail(vals), m, which)
       IN IF ~Printed(v, which) THEN rest
          ELSE {IF o = Abort \/ r = AbortText THEN AbortText
                ELSE <<Join(v.name), " = ", o, "\n">> \o r :
                  o \in PrintVarval(PrintArgsOf(v, m)), r \in rest}

\* lines 199-249: var is null, so no " for <var>" and no break at line 233
ErrorText(msg, m) ==
  {IF a = AbortText \/ b = AbortText \/ c = AbortText THEN AbortText
   ELSE <<msg, "\n\nExample:\n">> \o a \o <<"\nSource:\n">> \o b
          \o <<"\nTarget:\n">> \o c :
     a \in Lines(srcValues, m, "inputs"),
     b \in Lines(srcValues, m, "values"),
     c \in Lines(tgtValues, m, "values")}

ErrEntry(text, w) == [text |-> text, witness |-> w]

AbortEntry == ErrEntry(AbortText, FALSE)

\* lines 179-197 of error: the entry added for a result that is no answer
ErrorLadder(r) ==
  IF r.kind = "Invalid" THEN {ErrEntry(<<"Invalid expr">>, FALSE)}
  ELSE IF r.kind = "Timeout" THEN {ErrEntry(<<"Timeout">>, FALSE)}
  ELSE IF r.kind = "Error" THEN {ErrEntry(<<"SMT Error: " \o r.reason>>, FALSE)}
  ELSE IF r.kind = "Skip" THEN {ErrEntry(<<"Skip">>, FALSE)}
  ELSE {}

\* error, lines 174-251: the entry added, or AbortEntry
ErrorAdds(r, msg) ==
  IF ErrorLadder(r) # {} THEN ErrorLadder(r)
  ELSE IF GetModel(r) = {} THEN {AbortEntry}
  ELSE {IF t = AbortText THEN AbortEntry ELSE ErrEntry(t, TRUE) :
          t \in UNION {ErrorText(msg, m) : m \in GetModel(r)}}

\* MainLadder without the test of line 359
MainLadderNoSkip(r) ==
  IF r.kind = "Invalid" THEN {ErrEntry(<<"Invalid expr">>, FALSE)}
  ELSE IF r.kind = "Timeout" THEN {ErrEntry(<<"Timeout">>, FALSE)}
  ELSE IF r.kind = "Error" THEN {ErrEntry(<<"SMT Error: " \o r.reason>>, FALSE)}
  ELSE {}

\* lines 344-362 of the main obligation's handler
MainLadder(r) ==
  IF r.kind = "Invalid" THEN {ErrEntry(<<"Invalid expr">>, FALSE)}
  ELSE IF r.kind = "Timeout" THEN {ErrEntry(<<"Timeout">>, FALSE)}
  ELSE IF r.kind = "Error" THEN {ErrEntry(<<"SMT Error: " \o r.reason>>, FALSE)}
  ELSE IF r.kind = "Skip" THEN {ErrEntry(<<"Skip">>, FALSE)}
  ELSE {}

\* UnsatEntry flagged as carrying a witness
UnsatEntryWithWitness == ErrEntry(<<"Unsat">>, TRUE)

\* line 365: errs.add("Unsat", false)
UnsatEntry == ErrEntry(<<"Unsat">>, FALSE)

\* IsHole without the test of lines 375-377
IsHoleAnyKind(v) == StartsWith(v.name, ReservedPrefix)

\* lines 375-379: the values the main handler records
IsHole(v) ==
  /\ v.kind \in {"Input", "ConstantInput"}
  /\ StartsWith(v.name, ReservedPrefix)

\* line 381: m.eval(val.first.value)
EvalValue(view) == IF view.partial = "const" THEN view.shown ELSE "expr"

Put(f, k, x) == [y \in DOMAIN f \cup {k} |-> IF y = k THEN x ELSE f[y]]

\* lines 373-386 from the value at the head of vals on; st is
\* [result, written, text, aborted]
RECURSIVE Record(_, _, _)
Record(vals, m, st) ==
  IF vals = <<>> THEN {st}
  ELSE LET v == Head(vals)
           st1 == [st EXCEPT !.result = Put(@, v, EvalValue(m[v.kind])),
                             !.written = @ \cup {v}]
       IN IF ~IsHole(v) THEN Record(Tail(vals), m, st)
          ELSE UNION {IF o = Abort THEN {[st1 EXCEPT !.aborted = TRUE]}
                      ELSE Record(Tail(vals), m,
                                  [st1 EXCEPT !.text = @ \o <<Join(v.name), " = ", o, "\n">>]) :
                        o \in PrintVarval(PrintArgsOf(v, m))}

\* lines 301-313: mk_fml; axioms_expr is expr(true) (line 278) and p is
\* what preprocess returns
MkFml(r, p) == IF IsFalse(r) THEN r ELSE MkAnd(TT, p)

\* Queries with the two obligations in the other order
QueriesMainFirst ==
  <<[fml |-> MkFml(refines.main, pre.main), handler |-> "main"],
    [fml |-> MkFml(refines.dom, pre.dom), handler |-> "dom"]>>

\* lines 336-389: the list given to Solver::check
Queries ==
  <<[fml |-> MkFml(refines.dom, pre.dom), handler |-> "dom"],
    [fml |-> MkFml(refines.main, pre.main), handler |-> "main"]>>

\* lines 264-335
Build ==
  /\ pc = "start"
  /\ queries' = Queries
  /\ qi' = 1
  /\ errs' = <<>>
  /\ pc' = "check"
  /\ UNCHANGED <<prevars, prvars, srcValues, tgtValues, refines, pre, asserts,
                 result0, result, written, log, dbg>>

\* Solver::check takes the queries in the order of the list.  A query that
\* is the literal false needs no solver call: its handler is not run.
SolverSkip ==
  /\ pc = "check"
  /\ qi <= Len(queries)
  /\ IsFalse(queries[qi].fml)
  /\ qi' = qi + 1
  /\ UNCHANGED <<prevars, prvars, pc, srcValues, tgtValues, refines, pre,
                 asserts, result0, queries, errs, result, written, log, dbg>>

\* Solver::check hands the query's result to its handler
Delivered(h) ==
  /\ pc = "check"
  /\ qi <= Len(queries)
  /\ queries[qi].handler = h
  /\ ~IsFalse(queries[qi].fml)

\* lines 338-341, with err (lines 332-334) and error
DomainLossHandler ==
  /\ Delivered("dom")
  /\ \E r \in Results :
       /\ log' = Append(log, <<"dom", r.kind, r.reason>>)
       /\ \E a \in ErrorAdds(r, "Source is more defined than target") :
            IF a = AbortEntry
            THEN pc' = "aborted" /\ UNCHANGED <<errs, qi>>
            ELSE pc' = pc /\ errs' = Append(errs, a) /\ qi' = qi + 1
  /\ UNCHANGED <<prevars, prvars, srcValues, tgtValues, refines, pre, asserts,
                 result0, queries, result, written, dbg>>

\* lines 343-388
MainHandler ==
  /\ Delivered("main")
  /\ \E r \in Results :
       /\ log' = Append(log, <<"main", r.kind, r.reason>>)
       /\ IF MainLadder(r) # {}
          THEN /\ \E a \in MainLadder(r) : errs' = Append(errs, a)
               /\ qi' = qi + 1
               /\ UNCHANGED <<pc, result, written, dbg>>
          ELSE IF r.kind = "Unsat"
          THEN /\ errs' = Append(errs, UnsatEntry)
               /\ qi' = qi + 1
               /\ UNCHANGED <<pc, result, written, dbg>>
          ELSE \E m \in GetModel(r) :
                 \E st \in Record(tgtValues, m,
                                  [result |-> result, written |-> written,
                                   text |-> <<";result\n">>, aborted |-> FALSE]) :
                   /\ result' = st.result
                   /\ written' = st.written
                   /\ errs' = errs
                   /\ IF st.aborted
                      THEN pc' = "aborted" /\ UNCHANGED <<qi, dbg>>
                      ELSE pc' = pc /\ qi' = qi + 1 /\ dbg' = Append(dbg, st.text)
  /\ UNCHANGED <<prevars, prvars, srcValues, tgtValues, refines, pre, asserts,
                 result0, queries>>

\* line 390
SolverReturn ==
  /\ pc = "check"
  /\ qi > Len(queries)
  /\ pc' = "returned"
  /\ UNCHANGED <<prevars, prvars, srcValues, tgtValues, refines, pre, asserts,
                 result0, queries, qi, errs, result, written, log, dbg>>

Next ==
  \/ Build
  \/ SolverSkip
  \/ DomainLossHandler
  \/ MainHandler
  \/ SolverReturn

(***************************************************************************)
(* The transforms synthesize is run on.                                    *)
(***************************************************************************)
MaxSrcValues == 1

MaxTgtValues == 2

RECURSIVE InjSeqs(_, _)
InjSeqs(S, n) ==
  IF n = 0 THEN {<<>>}
  ELSE LET R == InjSeqs(S, n - 1)
       IN R \cup {Append(q, a) : q \in {r \in R : Len(r) = n - 1}, a \in S}

NoRepeat(q) == \A i, j \in DOMAIN q : q[i].name = q[j].name => i = j

SrcUniverse ==
  {[name |-> <<"%", "x">>, kind |-> "Input"],
   [name |-> <<"%", "t">>, kind |-> "Instr"],
   [name |-> <<"C", "1">>, kind |-> "ConstantInput"]}

TgtUniverse ==
  {[name |-> <<"%", "x">>, kind |-> "Input"],
   [name |-> <<"%", "_reservedc", "1">>, kind |-> "Input"],
   [name |-> <<"%", "_reservedc", "2">>, kind |-> "ConstantInput"],
   [name |-> <<"%", "_reservedc", "3">>, kind |-> "Instr"]}

SrcLists == {q \in InjSeqs(SrcUniverse, MaxSrcValues) : NoRepeat(q)}

TgtLists == {q \in InjSeqs(TgtUniverse, MaxTgtValues) : NoRepeat(q)}

\* a term that is the literal false, and one that is not
Obligations == {FF, <<"bool", 1>>}

\* the caller's map: empty, or holding an entry of an earlier call
InitialMaps ==
  {<<>>, [v \in {[name |-> <<"%", "_reservedc", "1">>, kind |-> "Input"]} |-> "old"]}

Init ==
  /\ PreIdle
  /\ PrintIdle
  /\ pc = "start"
  /\ srcValues \in SrcLists
  /\ tgtValues \in TgtLists
  /\ refines \in [dom : Obligations, main : Obligations]
  /\ pre \in [dom : Obligations, main : Obligations]
  /\ asserts \in BOOLEAN
  /\ result0 \in InitialMaps
  /\ queries = <<>>
  /\ qi = 0
  /\ errs = <<>>
  /\ result = result0
  /\ written = {}
  /\ log = <<>>
  /\ dbg = <<>>

Spec == Init /\ [][Next]_vars

(***************************************************************************)
(* Properties of synthesize.                                               *)
(***************************************************************************)
Range(q) == {q[i] : i \in DOMAIN q}

\* the handler h was given a result of kind k
Handled(h, k) == \E i \in DOMAIN log : log[i][1] = h /\ log[i][2] = k

Regression == "Source is more defined than target"

HasEntry(first, w) ==
  \E i \in DOMAIN errs : errs[i].text[1] = first /\ errs[i].witness = w

\* C1: the synthesized-constants map is written only by the main handler on a
\* Sat result: in every state where the main handler was given no Sat result
\* (whatever the domain-loss handler was given) the map equals the map before
\* the call, and every key ever written is a value of the target that is an
\* Input or a ConstantInput and whose name starts with %_reservedc; every
\* other entry is the caller's.
C1_MapWrittenOnlyOnMainSat ==
  /\ ~Handled("main", "Sat") => result = result0 /\ written = {}
  /\ \A v \in written :
       /\ v \in Range(tgtValues)
       /\ v.kind \in {"Input", "ConstantInput"}
       /\ StartsWith(v.name, <<"%", "_reservedc">>)
       /\ v \in DOMAIN result
  /\ \A k \in DOMAIN result :
       k \notin written => k \in DOMAIN result0 /\ result[k] = result0[k]

C1_Witness ==
  /\ pc = "returned"
  /\ Handled("main", "Sat")
  /\ written # {}
  /\ \E v \in Range(tgtValues) :
       StartsWith(v.name, <<"%", "_reservedc">>) /\ v \notin written

\* the domain-loss handler is given an Unsat result in this step
DomainUnsatStep ==
  /\ pc = "check"
  /\ qi <= Len(queries)
  /\ queries[qi].handler = "dom"
  /\ log' = Append(log, <<"dom", "Unsat", "">>)

\* C2: the step in which the domain-loss handler is given an Unsat result
\* leaves Errors as it was and runs to its end (it reads no model).
C2_DomainUnsatSilent ==
  [][DomainUnsatStep => errs' = errs /\ pc' = pc /\ qi' = qi + 1]_vars

\* C3: in every state where the domain-loss handler was given a Sat result
\* and the main handler was given a Sat or Unsat result, the domain-loss
\* result came first and the entry "Source is more defined than target",
\* with a witness, is the first entry of Errors, before any "Unsat" entry;
\* and as long as the domain-loss handler has been given nothing, no "Unsat"
\* entry is in Errors and no key of the map is written unless the
\* domain-loss query is the literal false.
C3_RegressionFirst ==
  /\ \A i, j \in DOMAIN log :
       (/\ log[i][1] = "dom" /\ log[i][2] = "Sat"
        /\ log[j][1] = "main" /\ log[j][2] \in {"Sat", "Unsat"})
       => /\ i < j
          /\ errs # <<>>
          /\ errs[1].text[1] = Regression
          /\ errs[1].witness
          /\ \A n \in DOMAIN errs : errs[n].text = <<"Unsat">> => n > 1
  /\ (pc = "check" /\ qi <= Len(queries) /\ queries[qi].handler = "dom"
      /\ ~IsFalse(queries[qi].fml))
     => written = {} /\ ~HasEntry("Unsat", FALSE)

C3_Witness ==
  /\ pc = "returned"
  /\ Handled("dom", "Sat")
  /\ Handled("main", "Unsat")
  /\ Len(errs) = 2
  /\ errs[2].text = <<"Unsat">>

\* C4: whenever synthesize has returned with Errors empty, the domain-loss
\* handler was given Unsat and the main handler was given Sat, and every
\* constant hole of the target has an entry in the map.
C4_EmptyErrorsMeansSuccess ==
  (pc = "returned" /\ errs = <<>>)
  => /\ Handled("dom", "Unsat")
     /\ Handled("main", "Sat")
     /\ \A v \in Range(tgtValues) :
          (v.kind \in {"Input", "ConstantInput"}
           /\ StartsWith(v.name, <<"%", "_reservedc">>)) => v \in written

FailureKinds == {"Invalid", "Timeout", "Error", "Skip"}

FailureText(k, reason) ==
  IF k = "Invalid" THEN "Invalid expr"
  ELSE IF k = "Timeout" THEN "Timeout"
  ELSE IF k = "Error" THEN "SMT Error: " \o reason
  ELSE "Skip"

\* C8: a step in which either handler is given an Invalid, Timeout, Error or
\* Skip result appends to Errors exactly the one entry with the text
\* "Invalid expr", "Timeout", "SMT Error: <reason>" or "Skip" and no witness,
\* leaves the map, the debug stream and the query list as they were and goes
\* on to the next query; and every step leaves the entries Errors already
\* has in place.
C8_FailureOneEntry ==
  [][/\ \A h \in {"dom", "main"}, k \in FailureKinds, x \in Reasons \cup {""} :
          log' = Append(log, <<h, k, x>>)
          => /\ errs' = Append(errs, [text |-> <<FailureText(k, x)>>,
                                      witness |-> FALSE])
             /\ result' = result
             /\ written' = written
             /\ dbg' = dbg
             /\ queries' = queries
             /\ qi' = qi + 1
             /\ pc' = pc
     /\ pc # "start"
        => /\ Len(errs') >= Len(errs)
           /\ SubSeq(errs', 1, Len(errs)) = errs]_vars

C8_Witness ==
  /\ pc = "returned"
  /\ log = <<(<<"dom", "Timeout", "">>), (<<"main", "Error", "out of memory">>)>>
  /\ errs = <<[text |-> <<"Timeout">>, witness |-> FALSE],
              [text |-> <<"SMT Error: out of memory">>, witness |-> FALSE]>>

====
